---- MODULE Spec2Model ----
(***************************************************************************)
(* EngineInstrumentation (src/Engine/babylon.engineInstrumentation.ts).    *)
(*                                                                         *)
(* The controller's private fields are the variables that carry the        *)
(* source's names.  The engine (its four observables, its timer queries),  *)
(* the PerfCounter accumulators and the wall clock are collaborators whose *)
(* code is not part of the file; they are modelled from their contracts.   *)
(* Every step is one synchronous call: a property write, dispose(), or one *)
(* engine event that runs every callback registered on its observable.     *)
(* The wall clock advances while a shader compiles.                        *)
(***************************************************************************)
EXTENDS Integers, Sequences, FiniteSets, TLC

\* ------------------------------------------------------------------ bounds
\* callbacks one observable may hold
MaxObservers == 2
\* timer queries the engine issues
MaxTokens == 2
\* largest elapsed GPU time a query resolves to
MaxTime == 1
\* last instant of the wall clock
MaxNow == 1
\* sampling frames of the compilation accumulator
MaxShaderSamples == 2

\* --------------------------------------------------------------- constants
\* _gpuFrameTimeToken empty (null / not yet assigned)
NoToken == 0
\* an observer slot holding null
NoObserver == 0
\* endTimeQuery: result not yet available
NotReady == -1

Results == {NotReady} \cup (0..MaxTime)

VARIABLES
    engine,                              \* TRUE: bound, FALSE: null
    _captureGPUFrameTime,
    _gpuFrameTimeToken,
    _gpuFrameTime,
    _captureShaderCompilationTime,
    _shaderCompilationTime,
    _onBeginFrameObserver,
    _onEndFrameObserver,
    _onBeforeShaderCompilationObserver,
    _onAfterShaderCompilationObserver,
    \* the engine
    onBeginFrameObservable,
    onEndFrameObservable,
    onBeforeShaderCompilationObservable,
    onAfterShaderCompilationObservable,
    nextObserver,                        \* identity of the next Observer object, per mode
    nextToken,                           \* identity of the next _TimeToken
    compiling,                           \* between a before- and its after-compilation event
    now,                                 \* wall clock
    \* observation of the last step
    calls,                               \* collaborator operations it called, in order
    thrown,                              \* it ended in a TypeError
    lastOp,                              \* the operation and its argument
    \* history
    written,                             \* value last written to each toggle
    issued,                              \* startTimeQuery calls so far
    resolved,                            \* endTimeQuery calls that returned a time so far
    deferred,                            \* the stored token, or the one the last step resolved,
                                         \* has had a not-ready answer
    abandoned                            \* the stored token, if GPU capture was turned off
                                         \* while it was outstanding

fields == <<engine, _captureGPUFrameTime, _gpuFrameTimeToken, _gpuFrameTime,
            _captureShaderCompilationTime, _shaderCompilationTime,
            _onBeginFrameObserver, _onEndFrameObserver,
            _onBeforeShaderCompilationObserver, _onAfterShaderCompilationObserver>>

observables == <<onBeginFrameObservable, onEndFrameObservable,
                 onBeforeShaderCompilationObservable, onAfterShaderCompilationObservable>>

vars == <<fields, observables, nextObserver, nextToken, compiling, now,
          calls, thrown, lastOp, written, issued, resolved, deferred, abandoned>>

\* ------------------------------------------------------------ PerfCounter
NewPerfCounter == [count |-> 0, current |-> 0, total |-> 0, start |-> 0]

_fetchResult(c) == [c EXCEPT !.total = @ + c.current]

fetchNewFrame(c) == [c EXCEPT !.count = @ + 1, !.current = 0]

addCount(c, newCount, fetchResult) ==
    LET c1 == [c EXCEPT !.current = @ + newCount]
    IN  IF fetchResult THEN _fetchResult(c1) ELSE c1

beginMonitoring(c, t) == [c EXCEPT !.start = t]

endMonitoring(c, t) == _fetchResult([c EXCEPT !.current = t - c.start])

average(c) == IF c.count = 0 THEN 0 ELSE c.total \div c.count

\* ------------------------------------------------------------- Observable
Call(op, arg, ret) == [op |-> op, arg |-> arg, ret |-> ret]

ObservableRemove(obs, h) == SelectSeq(obs, LAMBDA o : o # h)

\* ----------------------------------------------------- callback execution
\* What a running callback reads and writes.
Mem == [engine |-> engine,
        token |-> _gpuFrameTimeToken,
        gpu |-> _gpuFrameTime,
        shader |-> _shaderCompilationTime,
        nextToken |-> nextToken,
        issued |-> issued,
        resolved |-> resolved,
        now |-> now,
        calls |-> <<>>,
        thrown |-> FALSE]

Throw(m) == [m EXCEPT !.thrown = TRUE]

Commit(m) ==
    /\ _gpuFrameTimeToken' = m.token
    /\ _gpuFrameTime' = m.gpu
    /\ _shaderCompilationTime' = m.shader
    /\ nextToken' = m.nextToken
    /\ issued' = m.issued
    /\ resolved' = m.resolved
    /\ calls' = m.calls
    /\ thrown' = m.thrown
    /\ deferred' = IF \E i \in DOMAIN m.calls : m.calls[i].op = "endTimeQuery"
                   THEN deferred \/ \E i \in DOMAIN m.calls : m.calls[i].ret = NotReady
                   ELSE m.token = _gpuFrameTimeToken /\ m.token # NoToken /\ deferred
    /\ abandoned' = IF m.token = _gpuFrameTimeToken THEN abandoned ELSE NoToken

\* The begin-frame callback without its test for an outstanding token.
onBeginFrame_alwaysIssues(m) ==
    IF ~m.engine THEN Throw(m)
    ELSE [m EXCEPT !.token = m.nextToken,
                   !.nextToken = @ + 1,
                   !.issued = @ + 1,
                   !.calls = Append(@, Call("startTimeQuery", NoToken, m.nextToken))]

onBeginFrame(m) ==
    IF m.token # NoToken THEN m
    ELSE IF ~m.engine THEN Throw(m)
    ELSE [m EXCEPT !.token = m.nextToken,
                   !.nextToken = @ + 1,
                   !.issued = @ + 1,
                   !.calls = Append(@, Call("startTimeQuery", NoToken, m.nextToken))]

\* The end-frame callback taking the sentinel for a result (>= for >).
onEndFrame_acceptsSentinel(m, time) ==
    IF m.token = NoToken THEN m
    ELSE IF ~m.engine THEN Throw(m)
    ELSE LET m1 == [m EXCEPT !.calls = Append(@, Call("endTimeQuery", m.token, time))]
         IN  IF time >= -1
             THEN [m1 EXCEPT !.token = NoToken,
                             !.gpu = addCount(fetchNewFrame(@), time, TRUE),
                             !.resolved = @ + 1]
             ELSE m1

\* The end-frame callback recording the time without a new sampling frame.
onEndFrame_noNewFrame(m, time) ==
    IF m.token = NoToken THEN m
    ELSE IF ~m.engine THEN Throw(m)
    ELSE LET m1 == [m EXCEPT !.calls = Append(@, Call("endTimeQuery", m.token, time))]
         IN  IF time > -1
             THEN [m1 EXCEPT !.token = NoToken,
                             !.gpu = addCount(@, time, TRUE),
                             !.resolved = @ + 1]
             ELSE m1

\* The end-frame callback without its test for a missing token.
onEndFrame_noTokenCheck(m, time) ==
    IF ~m.engine THEN Throw(m)
    ELSE LET m1 == [m EXCEPT !.calls = Append(@, Call("endTimeQuery", m.token, time))]
         IN  IF time > -1
             THEN [m1 EXCEPT !.token = NoToken,
                             !.gpu = addCount(fetchNewFrame(@), time, TRUE),
                             !.resolved = @ + 1]
             ELSE m1

\* The end-frame callback giving up the token on a not-ready result.
onEndFrame_dropsNotReady(m, time) ==
    IF m.token = NoToken THEN m
    ELSE IF ~m.engine THEN Throw(m)
    ELSE LET m1 == [m EXCEPT !.calls = Append(@, Call("endTimeQuery", m.token, time)),
                             !.token = NoToken]
         IN  IF time > -1
             THEN [m1 EXCEPT !.gpu = addCount(fetchNewFrame(@), time, TRUE),
                             !.resolved = @ + 1]
             ELSE m1

\* The end-frame callback leaving the token in place after a ready result.
onEndFrame_keepsToken(m, time) ==
    IF m.token = NoToken THEN m
    ELSE IF ~m.engine THEN Throw(m)
    ELSE LET m1 == [m EXCEPT !.calls = Append(@, Call("endTimeQuery", m.token, time))]
         IN  IF time > -1
             THEN [m1 EXCEPT !.gpu = addCount(fetchNewFrame(@), time, TRUE),
                             !.resolved = @ + 1]
             ELSE m1

onEndFrame(m, time) ==
    IF m.token = NoToken THEN m
    ELSE IF ~m.engine THEN Throw(m)
    ELSE LET m1 == [m EXCEPT !.calls = Append(@, Call("endTimeQuery", m.token, time))]
         IN  IF time > -1
             THEN [m1 EXCEPT !.token = NoToken,
                             !.gpu = addCount(fetchNewFrame(@), time, TRUE),
                             !.resolved = @ + 1]
             ELSE m1

onBeforeShaderCompilation(m) ==
    [m EXCEPT !.shader = beginMonitoring(fetchNewFrame(@), m.now),
              !.calls = @ \o <<Call("fetchNewFrame", 0, 0), Call("beginMonitoring", 0, 0)>>]

\* The after-compilation callback ending monitoring on the GPU counter.
onAfterShaderCompilation_wrongCounter(m) ==
    [m EXCEPT !.gpu = endMonitoring(@, m.now),
              !.calls = Append(@, Call("endMonitoring", 0, 0))]

onAfterShaderCompilation(m) ==
    [m EXCEPT !.shader = endMonitoring(@, m.now),
              !.calls = Append(@, Call("endMonitoring", 0, 0))]

\* notifyObservers: every registered callback in registration order; an
\* exception leaves the remaining ones unrun.
RECURSIVE NotifyBeginFrame(_, _)
NotifyBeginFrame(obs, m) ==
    IF obs = <<>> \/ m.thrown THEN m
    ELSE NotifyBeginFrame(Tail(obs), onBeginFrame(m))

RECURSIVE NotifyEndFrame(_, _, _)
NotifyEndFrame(obs, times, m) ==
    IF obs = <<>> \/ m.thrown THEN m
    ELSE NotifyEndFrame(Tail(obs), Tail(times), onEndFrame(m, Head(times)))

RECURSIVE NotifyBeforeShaderCompilation(_, _)
NotifyBeforeShaderCompilation(obs, m) ==
    IF obs = <<>> \/ m.thrown THEN m
    ELSE NotifyBeforeShaderCompilation(Tail(obs), onBeforeShaderCompilation(m))

RECURSIVE NotifyAfterShaderCompilation(_, _)
NotifyAfterShaderCompilation(obs, m) ==
    IF obs = <<>> \/ m.thrown THEN m
    ELSE NotifyAfterShaderCompilation(Tail(obs), onAfterShaderCompilation(m))

\* ------------------------------------------------------------------- Init
Init ==
    /\ engine = TRUE
    /\ _captureGPUFrameTime = FALSE
    /\ _gpuFrameTimeToken = NoToken
    /\ _gpuFrameTime = NewPerfCounter
    /\ _captureShaderCompilationTime = FALSE
    /\ _shaderCompilationTime = NewPerfCounter
    /\ _onBeginFrameObserver = NoObserver
    /\ _onEndFrameObserver = NoObserver
    /\ _onBeforeShaderCompilationObserver = NoObserver
    /\ _onAfterShaderCompilationObserver = NoObserver
    /\ onBeginFrameObservable = <<>>
    /\ onEndFrameObservable = <<>>
    /\ onBeforeShaderCompilationObservable = <<>>
    /\ onAfterShaderCompilationObservable = <<>>
    /\ nextObserver = [gpu |-> 1, shader |-> 1]
    /\ nextToken = 1
    /\ compiling = FALSE
    /\ now = 0
    /\ calls = <<>>
    /\ thrown = FALSE
    /\ lastOp = [op |-> "constructor", arg |-> FALSE]
    /\ written = [gpu |-> FALSE, shader |-> FALSE]
    /\ deferred = FALSE
    /\ abandoned = NoToken
    /\ issued = 0
    /\ resolved = 0

\* ---------------------------------------------------------------- actions
steady == <<nextToken, compiling, now, issued, resolved, deferred>>

\* History: a write of false after a write of true turns GPU capture off; the
\* token stored at that moment is the one said to be abandoned.  Only the
\* stored token is ever passed to the engine (line 67), so the mark is kept
\* for as long as that token is stored.
AbandonedBy(value) ==
    IF ~value /\ written.gpu /\ _gpuFrameTimeToken # NoToken
    THEN _gpuFrameTimeToken
    ELSE abandoned

gpuSide == <<_captureGPUFrameTime, _gpuFrameTimeToken, _gpuFrameTime,
             _onBeginFrameObserver, _onEndFrameObserver,
             onBeginFrameObservable, onEndFrameObservable>>

shaderSide == <<_captureShaderCompilationTime, _shaderCompilationTime,
                _onBeforeShaderCompilationObserver, _onAfterShaderCompilationObserver,
                onBeforeShaderCompilationObservable, onAfterShaderCompilationObservable>>

\* The two property setters.  Neither branch of either setter assigns the
\* toggle field (_captureGPUFrameTime, _captureShaderCompilationTime): the
\* source has no such assignment, so the field keeps its initial value.
\* With a null engine the first `this.engine.` of a branch is a TypeError.

\* The body of the GPU setter below its early return.
switchGPUFrameTime(value) ==
    /\ lastOp' = [op |-> "set captureGPUFrameTime", arg |-> value]
    /\ written' = [written EXCEPT !.gpu = value]
    /\ abandoned' = AbandonedBy(value)
    /\ UNCHANGED <<steady, shaderSide, engine, _gpuFrameTimeToken, _gpuFrameTime>>
    /\ IF ~engine
       THEN /\ calls' = <<>>
            /\ thrown' = TRUE
            /\ UNCHANGED <<_captureGPUFrameTime, _onBeginFrameObserver, _onEndFrameObserver,
                           onBeginFrameObservable, onEndFrameObservable, nextObserver>>
       ELSE IF value
       THEN /\ onBeginFrameObservable' = Append(onBeginFrameObservable, nextObserver.gpu)
            /\ _onBeginFrameObserver' = nextObserver.gpu
            /\ onEndFrameObservable' = Append(onEndFrameObservable, nextObserver.gpu)
            /\ _onEndFrameObserver' = nextObserver.gpu
            /\ nextObserver' = [nextObserver EXCEPT !.gpu = @ + 1]
            /\ calls' = <<Call("onBeginFrameObservable.add", 0, nextObserver.gpu),
                          Call("onEndFrameObservable.add", 0, nextObserver.gpu)>>
            /\ thrown' = FALSE
            /\ UNCHANGED _captureGPUFrameTime
       ELSE /\ onBeginFrameObservable' =
                    ObservableRemove(onBeginFrameObservable, _onBeginFrameObserver)
            /\ _onBeginFrameObserver' = NoObserver
            /\ onEndFrameObservable' =
                    ObservableRemove(onEndFrameObservable, _onEndFrameObserver)
            /\ _onEndFrameObserver' = NoObserver
            /\ calls' = <<Call("onBeginFrameObservable.remove", _onBeginFrameObserver, 0),
                          Call("onEndFrameObservable.remove", _onEndFrameObserver, 0)>>
            /\ thrown' = FALSE
            /\ UNCHANGED <<_captureGPUFrameTime, nextObserver>>

\* The setter without its early return on an unchanged value.
set_captureGPUFrameTime_noEarlyReturn(value) == switchGPUFrameTime(value)

set_captureGPUFrameTime(value) ==
    IF value = _captureGPUFrameTime
    THEN /\ lastOp' = [op |-> "set captureGPUFrameTime", arg |-> value]
         /\ written' = [written EXCEPT !.gpu = value]
         /\ abandoned' = AbandonedBy(value)
         /\ calls' = <<>>
         /\ thrown' = FALSE
         /\ UNCHANGED <<steady, shaderSide, gpuSide, engine, nextObserver>>
    ELSE switchGPUFrameTime(value)

\* The body of the shader-compilation setter below its early return.
switchShaderCompilationTime(value) ==
    /\ lastOp' = [op |-> "set captureShaderCompilationTime", arg |-> value]
    /\ written' = [written EXCEPT !.shader = value]
    /\ UNCHANGED abandoned
    /\ UNCHANGED <<steady, gpuSide, engine, _shaderCompilationTime>>
    /\ IF ~engine
       THEN /\ calls' = <<>>
            /\ thrown' = TRUE
            /\ UNCHANGED <<_captureShaderCompilationTime,
                           _onBeforeShaderCompilationObserver,
                           _onAfterShaderCompilationObserver,
                           onBeforeShaderCompilationObservable,
                           onAfterShaderCompilationObservable, nextObserver>>
       ELSE IF value
       THEN /\ onBeforeShaderCompilationObservable' =
                    Append(onBeforeShaderCompilationObservable, nextObserver.shader)
            /\ _onBeforeShaderCompilationObserver' = nextObserver.shader
            /\ onAfterShaderCompilationObservable' =
                    Append(onAfterShaderCompilationObservable, nextObserver.shader)
            /\ _onAfterShaderCompilationObserver' = nextObserver.shader
            /\ nextObserver' = [nextObserver EXCEPT !.shader = @ + 1]
            /\ calls' = <<Call("onBeforeShaderCompilationObservable.add", 0, nextObserver.shader),
                          Call("onAfterShaderCompilationObservable.add", 0, nextObserver.shader)>>
            /\ thrown' = FALSE
            /\ UNCHANGED _captureShaderCompilationTime
       ELSE /\ onBeforeShaderCompilationObservable' =
                    ObservableRemove(onBeforeShaderCompilationObservable,
                                     _onBeforeShaderCompilationObserver)
            /\ _onBeforeShaderCompilationObserver' = NoObserver
            /\ onAfterShaderCompilationObservable' =
                    ObservableRemove(onAfterShaderCompilationObservable,
                                     _onAfterShaderCompilationObserver)
            /\ _onAfterShaderCompilationObserver' = NoObserver
            /\ calls' = <<Call("onBeforeShaderCompilationObservable.remove",
                               _onBeforeShaderCompilationObserver, 0),
                          Call("onAfterShaderCompilationObservable.remove",
                               _onAfterShaderCompilationObserver, 0)>>
            /\ thrown' = FALSE
            /\ UNCHANGED <<_captureShaderCompilationTime, nextObserver>>

set_captureShaderCompilationTime(value) ==
    IF value = _captureShaderCompilationTime
    THEN /\ lastOp' = [op |-> "set captureShaderCompilationTime", arg |-> value]
         /\ written' = [written EXCEPT !.shader = value]
         /\ UNCHANGED abandoned
         /\ calls' = <<>>
         /\ thrown' = FALSE
         /\ UNCHANGED <<steady, shaderSide, gpuSide, engine, nextObserver>>
    ELSE switchShaderCompilationTime(value)

\* dispose() calling remove for every slot, null or not.
disposeCalls_unguarded ==
    <<Call("onBeginFrameObservable.remove", _onBeginFrameObserver, 0),
      Call("onEndFrameObservable.remove", _onEndFrameObserver, 0),
      Call("onBeforeShaderCompilationObservable.remove",
           _onBeforeShaderCompilationObserver, 0),
      Call("onAfterShaderCompilationObservable.remove",
           _onAfterShaderCompilationObserver, 0)>>

\* The remove calls dispose() makes, in order: one per non-null slot.
disposeCalls ==
    (IF _onBeginFrameObserver # NoObserver
     THEN <<Call("onBeginFrameObservable.remove", _onBeginFrameObserver, 0)>> ELSE <<>>)
    \o (IF _onEndFrameObserver # NoObserver
        THEN <<Call("onEndFrameObservable.remove", _onEndFrameObserver, 0)>> ELSE <<>>)
    \o (IF _onBeforeShaderCompilationObserver # NoObserver
        THEN <<Call("onBeforeShaderCompilationObservable.remove",
                    _onBeforeShaderCompilationObserver, 0)>> ELSE <<>>)
    \o (IF _onAfterShaderCompilationObserver # NoObserver
        THEN <<Call("onAfterShaderCompilationObservable.remove",
                    _onAfterShaderCompilationObserver, 0)>> ELSE <<>>)

\* dispose() without the null tests on its four slots.
dispose_unguarded ==
    /\ lastOp' = [op |-> "dispose", arg |-> FALSE]
    /\ UNCHANGED <<steady, written, abandoned, nextObserver, _captureGPUFrameTime,
                   _captureShaderCompilationTime, _gpuFrameTimeToken, _gpuFrameTime,
                   _shaderCompilationTime>>
    /\ IF ~engine
       THEN \* the first remove dereferences the null engine
            /\ calls' = <<>>
            /\ thrown' = TRUE
            /\ UNCHANGED <<engine, observables, _onBeginFrameObserver, _onEndFrameObserver,
                           _onBeforeShaderCompilationObserver,
                           _onAfterShaderCompilationObserver>>
       ELSE /\ onBeginFrameObservable' =
                    ObservableRemove(onBeginFrameObservable, _onBeginFrameObserver)
            /\ _onBeginFrameObserver' = NoObserver
            /\ onEndFrameObservable' =
                    ObservableRemove(onEndFrameObservable, _onEndFrameObserver)
            /\ _onEndFrameObserver' = NoObserver
            /\ onBeforeShaderCompilationObservable' =
                    ObservableRemove(onBeforeShaderCompilationObservable,
                                     _onBeforeShaderCompilationObserver)
            /\ _onBeforeShaderCompilationObserver' = NoObserver
            /\ onAfterShaderCompilationObservable' =
                    ObservableRemove(onAfterShaderCompilationObservable,
                                     _onAfterShaderCompilationObserver)
            /\ _onAfterShaderCompilationObserver' = NoObserver
            /\ engine' = FALSE
            /\ calls' = disposeCalls_unguarded
            /\ thrown' = FALSE

dispose ==
    /\ lastOp' = [op |-> "dispose", arg |-> FALSE]
    /\ UNCHANGED <<steady, written, abandoned, nextObserver, _captureGPUFrameTime,
                   _captureShaderCompilationTime, _gpuFrameTimeToken, _gpuFrameTime,
                   _shaderCompilationTime>>
    /\ IF ~engine /\ disposeCalls # <<>>
       THEN \* the first non-null slot dereferences the null engine
            /\ calls' = <<>>
            /\ thrown' = TRUE
            /\ UNCHANGED <<engine, observables, _onBeginFrameObserver, _onEndFrameObserver,
                           _onBeforeShaderCompilationObserver,
                           _onAfterShaderCompilationObserver>>
       ELSE /\ onBeginFrameObservable' =
                    ObservableRemove(onBeginFrameObservable, _onBeginFrameObserver)
            /\ _onBeginFrameObserver' = NoObserver
            /\ onEndFrameObservable' =
                    ObservableRemove(onEndFrameObservable, _onEndFrameObserver)
            /\ _onEndFrameObserver' = NoObserver
            /\ onBeforeShaderCompilationObservable' =
                    ObservableRemove(onBeforeShaderCompilationObservable,
                                     _onBeforeShaderCompilationObserver)
            /\ _onBeforeShaderCompilationObserver' = NoObserver
            /\ onAfterShaderCompilationObservable' =
                    ObservableRemove(onAfterShaderCompilationObservable,
                                     _onAfterShaderCompilationObserver)
            /\ _onAfterShaderCompilationObserver' = NoObserver
            /\ engine' = FALSE
            /\ calls' = disposeCalls
            /\ thrown' = FALSE

\* Engine events.  Each runs the callbacks registered on its observable.
eventFrame == <<engine, _captureGPUFrameTime, _captureShaderCompilationTime,
                _onBeginFrameObserver, _onEndFrameObserver,
                _onBeforeShaderCompilationObserver, _onAfterShaderCompilationObserver,
                observables, nextObserver, written>>

beginFrame ==
    /\ lastOp' = [op |-> "beginFrame", arg |-> FALSE]
    /\ Commit(NotifyBeginFrame(onBeginFrameObservable, Mem))
    /\ UNCHANGED <<eventFrame, compiling, now>>

endFrame(times) ==
    /\ lastOp' = [op |-> "endFrame", arg |-> FALSE]
    /\ Commit(NotifyEndFrame(onEndFrameObservable, times, Mem))
    /\ UNCHANGED <<eventFrame, compiling, now>>

beforeShaderCompilation ==
    /\ lastOp' = [op |-> "beforeShaderCompilation", arg |-> FALSE]
    /\ Commit(NotifyBeforeShaderCompilation(onBeforeShaderCompilationObservable, Mem))
    /\ compiling' = TRUE
    /\ UNCHANGED <<eventFrame, now>>

\* The compilation took `elapsed`; the callbacks read the clock after it.
afterShaderCompilation(elapsed) ==
    /\ lastOp' = [op |-> "afterShaderCompilation", arg |-> FALSE]
    /\ now' = now + elapsed
    /\ Commit(NotifyAfterShaderCompilation(onAfterShaderCompilationObservable,
                                           [Mem EXCEPT !.now = now + elapsed]))
    /\ compiling' = FALSE
    /\ UNCHANGED eventFrame

\* ------------------------------------------------------------------- Next
\* A compilation is synchronous: between its two events only time passes.
SetGPU ==
    \E value \in BOOLEAN :
        /\ ~compiling
        /\ (value /\ engine) => Len(onBeginFrameObservable) < MaxObservers
        /\ set_captureGPUFrameTime(value)

SetShader ==
    \E value \in BOOLEAN :
        /\ ~compiling
        /\ (value /\ engine) => Len(onBeforeShaderCompilationObservable) < MaxObservers
        /\ set_captureShaderCompilationTime(value)

Dispose ==
    /\ ~compiling
    /\ dispose

BeginFrame ==
    /\ ~compiling
    /\ nextToken <= MaxTokens
    /\ beginFrame

\* times[i] is what endTimeQuery returns to the i-th callback.  A callback that
\* finds no token asks for nothing, so its entry is left at NotReady.
Asked(times) ==
    \A i \in DOMAIN times :
        times[i] # NotReady =>
            /\ _gpuFrameTimeToken # NoToken
            /\ \A j \in 1..(i - 1) : times[j] = NotReady

EndFrame ==
    /\ ~compiling
    /\ \E times \in [1..Len(onEndFrameObservable) -> Results] :
           /\ Asked(times)
           /\ endFrame(times)

BeforeShaderCompilation ==
    /\ ~compiling
    /\ _shaderCompilationTime.count + Len(onBeforeShaderCompilationObservable)
           <= MaxShaderSamples
    /\ beforeShaderCompilation

AfterShaderCompilation ==
    /\ compiling
    /\ \E elapsed \in 0..(MaxNow - now) : afterShaderCompilation(elapsed)

Next ==
    \/ SetGPU
    \/ SetShader
    \/ Dispose
    \/ BeginFrame
    \/ EndFrame
    \/ BeforeShaderCompilation
    \/ AfterShaderCompilation

Spec == Init /\ [][Next]_vars

\* -------------------------------------------------------- read accessors
captureGPUFrameTime == _captureGPUFrameTime

captureShaderCompilationTime == _captureShaderCompilationTime

currentGPUFrameTime == _gpuFrameTime.current

averageGPUFrameTime == average(_gpuFrameTime)

currentShaderCompilationTime == _shaderCompilationTime.current

compiledShadersCount == _shaderCompilationTime.count

\* ------------------------------------------------------------ vocabulary
Did(op, arg) == lastOp = [op |-> op, arg |-> arg]

IsEvent(l) ==
    l.op \in {"beginFrame", "endFrame", "beforeShaderCompilation", "afterShaderCompilation"}

\* The calls of one step to the operation `op`.
CallsTo(cs, op) == SelectSeq(cs, LAMBDA c : c.op = op)

QueryCalls(cs) == SelectSeq(cs, LAMBDA c : c.op \in {"startTimeQuery", "endTimeQuery"})

\* --------------------------------------------------------------- claims

\* C1: for each capture mode, a write of true that directly follows a write of
\* true registers nothing and leaves exactly one begin/before callback and one
\* end/after callback registered.
C1_SecondSetTrueRegistersNothing ==
    [][ /\ ( /\ engine
             /\ Did("set captureGPUFrameTime", TRUE)
             /\ Did("set captureGPUFrameTime", TRUE)' )
           => /\ UNCHANGED <<onBeginFrameObservable, onEndFrameObservable>>
              /\ Len(onBeginFrameObservable') = 1
              /\ Len(onEndFrameObservable') = 1
        /\ ( /\ engine
             /\ Did("set captureShaderCompilationTime", TRUE)
             /\ Did("set captureShaderCompilationTime", TRUE)' )
           => /\ UNCHANGED <<onBeforeShaderCompilationObservable,
                             onAfterShaderCompilationObservable>>
              /\ Len(onBeforeShaderCompilationObservable') = 1
              /\ Len(onAfterShaderCompilationObservable') = 1
      ]_vars

\* C2: before disposal, each toggle is true exactly when its two callbacks are
\* registered, and a handle slot is non-null only while its toggle is true.
C2_ToggleInSyncWithSubscriptions ==
    engine =>
        /\ captureGPUFrameTime <=>
               (Len(onBeginFrameObservable) > 0 /\ Len(onEndFrameObservable) > 0)
        /\ _onBeginFrameObserver # NoObserver => captureGPUFrameTime
        /\ _onEndFrameObserver # NoObserver => captureGPUFrameTime
        /\ captureShaderCompilationTime <=>
               (/\ Len(onBeforeShaderCompilationObservable) > 0
                /\ Len(onAfterShaderCompilationObservable) > 0)
        /\ _onBeforeShaderCompilationObserver # NoObserver => captureShaderCompilationTime
        /\ _onAfterShaderCompilationObserver # NoObserver => captureShaderCompilationTime

\* C3: right after dispose() none of the four observables holds a callback of
\* the controller.
C3_DisposeUnregistersEverything ==
    (Did("dispose", FALSE) /\ ~thrown) =>
        /\ onBeginFrameObservable = <<>>
        /\ onEndFrameObservable = <<>>
        /\ onBeforeShaderCompilationObservable = <<>>
        /\ onAfterShaderCompilationObservable = <<>>

\* C4: the GPU accumulator changes only in an end-frame step in which
\* endTimeQuery returned a value >= 0; an end-frame step in which endTimeQuery
\* was called and returned only the not-ready sentinel leaves the accumulator
\* and the outstanding token as they were.
C4_SampleOnlyWhenReady ==
    [][ /\ (_gpuFrameTime' # _gpuFrameTime) =>
               /\ Did("endFrame", FALSE)'
               /\ \E i \in DOMAIN calls' :
                      calls'[i].op = "endTimeQuery" /\ calls'[i].ret >= 0
        /\ ( /\ Did("endFrame", FALSE)'
             /\ calls' # <<>>
             /\ \A i \in DOMAIN calls' : calls'[i].ret = NotReady )
           => UNCHANGED <<_gpuFrameTime, _gpuFrameTimeToken>>
      ]_vars

\* C4 happens: an end-frame step asked for the outstanding token's result, got
\* the sentinel, and left the token outstanding beside an earlier sample.
C4_Witness ==
    /\ Did("endFrame", FALSE)
    /\ calls # <<>>
    /\ \A i \in DOMAIN calls : calls[i].op = "endTimeQuery" /\ calls[i].ret = NotReady
    /\ _gpuFrameTimeToken # NoToken
    /\ _gpuFrameTime.count = 1
    /\ currentGPUFrameTime = MaxTime

\* C5: queries issued and not yet resolved never number more than one, and a
\* begin-frame step that starts with a token outstanding calls no
\* startTimeQuery and keeps the token.
C5_AtMostOneOutstanding ==
    [][ /\ issued' - resolved' <= 1
        /\ (Did("beginFrame", FALSE)' /\ _gpuFrameTimeToken # NoToken)
           => /\ _gpuFrameTimeToken' = _gpuFrameTimeToken
              /\ CallsTo(calls', "startTimeQuery") = <<>>
      ]_vars

\* C5 happens: a begin-frame event ran registered callbacks while a token was
\* outstanding and issued nothing.
C5_Witness ==
    /\ Did("beginFrame", FALSE)
    /\ engine
    /\ Len(onBeginFrameObservable) > 0
    /\ calls = <<>>
    /\ _gpuFrameTimeToken # NoToken

\* C6: while shader-compilation capture is on (true was the value last
\* written, before disposal), a before-compilation event advances the
\* accumulator once and begins monitoring once, in that order, its
\* after-compilation event ends monitoring once, and the sample count grows by
\* one over the pair.
C6_OneSamplePerCompilation ==
    [][ (engine /\ written.shader) =>
           /\ Did("beforeShaderCompilation", FALSE)' =>
                  /\ calls' = <<Call("fetchNewFrame", 0, 0), Call("beginMonitoring", 0, 0)>>
                  /\ compiledShadersCount' = compiledShadersCount + 1
           /\ Did("afterShaderCompilation", FALSE)' =>
                  /\ calls' = <<Call("endMonitoring", 0, 0)>>
                  /\ compiledShadersCount' = compiledShadersCount
      ]_vars

\* C7: right after a write of false (before disposal) the mode's two callbacks
\* are unregistered and its two slots are null; and while false is the value
\* last written, no engine event changes the mode's accumulator or the token,
\* or issues or resolves a query.
C7_OffStopsCapture ==
    [][ /\ (engine' /\ Did("set captureGPUFrameTime", FALSE)') =>
               /\ onBeginFrameObservable' = <<>>
               /\ onEndFrameObservable' = <<>>
               /\ _onBeginFrameObserver' = NoObserver
               /\ _onEndFrameObserver' = NoObserver
        /\ (engine' /\ Did("set captureShaderCompilationTime", FALSE)') =>
               /\ onBeforeShaderCompilationObservable' = <<>>
               /\ onAfterShaderCompilationObservable' = <<>>
               /\ _onBeforeShaderCompilationObserver' = NoObserver
               /\ _onAfterShaderCompilationObserver' = NoObserver
        /\ (engine /\ ~written.gpu /\ IsEvent(lastOp')) =>
               /\ UNCHANGED <<_gpuFrameTime, _gpuFrameTimeToken>>
               /\ QueryCalls(calls') = <<>>
        /\ (engine /\ ~written.shader /\ IsEvent(lastOp')) =>
               UNCHANGED _shaderCompilationTime
      ]_vars

\* C8: before disposal each toggle's read accessor returns the value last
\* written to it (false when none was).
C8_GetterReturnsLastWritten ==
    engine =>
        /\ captureGPUFrameTime = written.gpu
        /\ captureShaderCompilationTime = written.shader

\* C9: a write of false to a toggle that reads false changes no field of the
\* controller and no registration, and calls no operation of the engine.
C9_SetFalseWhenFalseIsNoOp ==
    [][ /\ (~captureGPUFrameTime /\ Did("set captureGPUFrameTime", FALSE)') =>
               /\ UNCHANGED <<fields, observables, nextObserver, nextToken>>
               /\ calls' = <<>>
               /\ ~thrown'
        /\ (~captureShaderCompilationTime /\ Did("set captureShaderCompilationTime", FALSE)') =>
               /\ UNCHANGED <<fields, observables, nextObserver, nextToken>>
               /\ calls' = <<>>
               /\ ~thrown'
      ]_vars

\* C9 happens: GPU capture was never turned on (nothing registered, no slot
\* set) while the other mode was, and false has just been written to it.
C9_Witness ==
    /\ Did("set captureGPUFrameTime", FALSE)
    /\ engine
    /\ ~captureGPUFrameTime
    /\ onBeginFrameObservable = <<>>
    /\ _onBeginFrameObserver = NoObserver
    /\ onBeforeShaderCompilationObservable # <<>>
    /\ compiledShadersCount > 0

\* C10: after dispose() no engine event changes either accumulator or the
\* token, and none calls startTimeQuery or endTimeQuery.
C10_NoMutationAfterDispose ==
    [][ (~engine /\ IsEvent(lastOp')) =>
           /\ UNCHANGED <<_gpuFrameTime, _shaderCompilationTime, _gpuFrameTimeToken>>
           /\ QueryCalls(calls') = <<>>
      ]_vars

\* C11: a dispose() called before disposal leaves the four handle slots null
\* and the engine binding cleared, and calls remove on an observable exactly
\* when that observable's slot was non-null.
C11_DisposeClearsSlotsAndBinding ==
    [][ (engine /\ Did("dispose", FALSE)') =>
           /\ ~thrown'
           /\ ~engine'
           /\ _onBeginFrameObserver' = NoObserver
           /\ _onEndFrameObserver' = NoObserver
           /\ _onBeforeShaderCompilationObserver' = NoObserver
           /\ _onAfterShaderCompilationObserver' = NoObserver
           /\ (CallsTo(calls', "onBeginFrameObservable.remove") # <<>>)
                  <=> (_onBeginFrameObserver # NoObserver)
           /\ (CallsTo(calls', "onEndFrameObservable.remove") # <<>>)
                  <=> (_onEndFrameObserver # NoObserver)
           /\ (CallsTo(calls', "onBeforeShaderCompilationObservable.remove") # <<>>)
                  <=> (_onBeforeShaderCompilationObserver # NoObserver)
           /\ (CallsTo(calls', "onAfterShaderCompilationObservable.remove") # <<>>)
                  <=> (_onAfterShaderCompilationObserver # NoObserver)
      ]_vars

\* C11 happens: dispose() ran with the GPU slots set and the shader slots
\* null, and removed the two GPU observers only.
C11_Witness ==
    /\ Did("dispose", FALSE)
    /\ ~engine
    /\ Len(calls) = 2
    /\ calls[1].op = "onBeginFrameObservable.remove"
    /\ calls[1].arg # NoObserver
    /\ calls[2].op = "onEndFrameObservable.remove"
    /\ _onBeginFrameObserver = NoObserver
    /\ _onEndFrameObserver = NoObserver
    /\ _gpuFrameTimeToken # NoToken

\* C12: an end-frame event that starts with a token outstanding and in which
\* endTimeQuery returns v >= 0 clears the token, advances the GPU accumulator
\* by one sampling frame and records v once: the current GPU frame time is v,
\* the total grows by v, and for a first sample the average is v.
C12_ReadyResultRecordedOnce ==
    [][ \A i \in DOMAIN calls' :
           ( /\ Did("endFrame", FALSE)'
             /\ _gpuFrameTimeToken # NoToken
             /\ calls'[i].op = "endTimeQuery"
             /\ calls'[i].ret >= 0 )
           => /\ calls'[i].arg = _gpuFrameTimeToken
              /\ _gpuFrameTimeToken' = NoToken
              /\ _gpuFrameTime'.count = _gpuFrameTime.count + 1
              /\ currentGPUFrameTime' = calls'[i].ret
              /\ _gpuFrameTime'.total = _gpuFrameTime.total + calls'[i].ret
              /\ (_gpuFrameTime.count = 0 => averageGPUFrameTime' = calls'[i].ret)
              /\ Len(SelectSeq(calls', LAMBDA c : c.ret >= 0)) = 1
      ]_vars

\* C12 happens: enable, begin-frame, end-frame resolving to MaxTime; the first
\* sample is read back as current and as average.
C12_Witness ==
    /\ Did("endFrame", FALSE)
    /\ calls = <<Call("endTimeQuery", 1, MaxTime)>>
    /\ _gpuFrameTimeToken = NoToken
    /\ _gpuFrameTime.count = 1
    /\ currentGPUFrameTime = MaxTime
    /\ averageGPUFrameTime = MaxTime

\* C15: a write to the GPU toggle, a begin-frame event and an end-frame event
\* leave the shader-compilation toggle, slots, registrations and accumulator
\* unchanged; a write to the shader-compilation toggle, a before-compilation
\* event and an after-compilation event leave the GPU toggle, slots,
\* registrations, token and accumulator unchanged.
C15_ModesIndependent ==
    [][ /\ lastOp'.op \in {"set captureGPUFrameTime", "beginFrame", "endFrame"}
               => UNCHANGED shaderSide
        /\ lastOp'.op \in {"set captureShaderCompilationTime",
                           "beforeShaderCompilation", "afterShaderCompilation"}
               => UNCHANGED gpuSide
      ]_vars

\* C15 happens: a compilation was measured while a GPU sample was recorded
\* and a further query is outstanding.
C15_Witness ==
    /\ Did("afterShaderCompilation", FALSE)
    /\ calls # <<>>
    /\ currentShaderCompilationTime = MaxNow
    /\ _gpuFrameTimeToken # NoToken
    /\ _gpuFrameTime.count = 1
    /\ currentGPUFrameTime = MaxTime

\* C16: an end-frame event that starts with no token outstanding calls no
\* endTimeQuery (nothing at all) and leaves the token and the GPU accumulator
\* unchanged.
C16_EndFrameWithoutTokenDoesNothing ==
    [][ (_gpuFrameTimeToken = NoToken /\ Did("endFrame", FALSE)') =>
           /\ calls' = <<>>
           /\ ~thrown'
           /\ UNCHANGED <<_gpuFrameTimeToken, _gpuFrameTime>>
      ]_vars

\* C16 happens: GPU capture was enabled and an end-frame event arrived before
\* any begin-frame event; its registered callback did nothing.
C16_Witness ==
    /\ Did("endFrame", FALSE)
    /\ engine
    /\ onEndFrameObservable # <<>>
    /\ issued = 0
    /\ calls = <<>>
    /\ _gpuFrameTimeToken = NoToken

\* C17: queries issued minus GPU samples recorded is 0 when no token is stored
\* and 1 when one is; one begin-frame event issues at most one query and one
\* end-frame event records at most one sample.
C17_IssuedMinusRecorded ==
    [][ /\ issued' - _gpuFrameTime'.count = (IF _gpuFrameTimeToken' = NoToken THEN 0 ELSE 1)
        /\ Did("beginFrame", FALSE)' =>
               Len(CallsTo(calls', "startTimeQuery")) <= 1 /\ issued' - issued <= 1
        /\ Did("endFrame", FALSE)' => _gpuFrameTime'.count - _gpuFrameTime.count <= 1
      ]_vars

\* C17 happens: with two end-frame callbacks registered, one end-frame event
\* recorded the one sample of the second query.
C17_Witness ==
    /\ Did("endFrame", FALSE)
    /\ Len(onEndFrameObservable) = 2
    /\ Len(onBeginFrameObservable) = 2
    /\ issued = 2
    /\ _gpuFrameTime.count = 2
    /\ _gpuFrameTimeToken = NoToken

\* C18: a dispose() that directly follows a dispose() calls no remove, does
\* not throw on the cleared engine binding and changes no field and no
\* registration.
C18_SecondDisposeChangesNothing ==
    [][ (Did("dispose", FALSE) /\ ~thrown /\ Did("dispose", FALSE)') =>
           /\ calls' = <<>>
           /\ ~thrown'
           /\ UNCHANGED <<fields, observables>>
      ]_vars

\* C18 happens: samples exist, so slots were set while the engine was bound,
\* yet this dispose() found nothing to remove: it is a repeated one.
C18_Witness ==
    /\ Did("dispose", FALSE)
    /\ ~engine
    /\ ~thrown
    /\ calls = <<>>
    /\ _gpuFrameTime.count > 0
    /\ compiledShadersCount > 0

\* The engine keeps rendering frames and a stored query's result becomes
\* available in the end: an end-frame event in which endTimeQuery has a result
\* for the stored token.
EndFrameReady ==
    /\ ~compiling
    /\ _gpuFrameTimeToken # NoToken
    /\ \E times \in [1..Len(onEndFrameObservable) -> Results] :
           /\ Asked(times)
           /\ \E i \in DOMAIN times : times[i] >= 0
           /\ endFrame(times)

\* A started compilation finishes, frames keep being rendered and results
\* keep arriving.
FairSpec == Spec /\ WF_vars(AfterShaderCompilation) /\ SF_vars(EndFrameReady)

\* C13: while GPU capture is on (before disposal), an end-frame event passes
\* the stored token to endTimeQuery first thing; a not-ready answer leaves
\* that token stored; and, frames continuing and the result arriving in the
\* end, an outstanding token is eventually cleared (its time recorded) unless
\* capture is turned off or the controller disposed first.
C13_NotReadyIsRetried ==
    /\ [][ /\ ( /\ engine
                /\ written.gpu
                /\ _gpuFrameTimeToken # NoToken
                /\ Did("endFrame", FALSE)' )
              => /\ calls' # <<>>
                 /\ calls'[1].op = "endTimeQuery"
                 /\ calls'[1].arg = _gpuFrameTimeToken
                 /\ (\A i \in DOMAIN calls' : calls'[i].ret = NotReady)
                        => _gpuFrameTimeToken' = _gpuFrameTimeToken
                 /\ (\E i \in DOMAIN calls' : calls'[i].ret >= 0)
                        => /\ _gpuFrameTimeToken' = NoToken
                           /\ _gpuFrameTime'.count = _gpuFrameTime.count + 1
         ]_vars
    /\ (engine /\ written.gpu /\ _gpuFrameTimeToken # NoToken)
           ~> (_gpuFrameTimeToken = NoToken \/ ~engine \/ ~written.gpu)

\* C13 happens: with one end-frame callback registered, the token that an
\* earlier end-frame event found not ready has now been resolved and recorded.
C13_Witness ==
    /\ Did("endFrame", FALSE)
    /\ engine
    /\ written.gpu
    /\ Len(onEndFrameObservable) = 1
    /\ deferred
    /\ calls = <<Call("endTimeQuery", 1, MaxTime)>>
    /\ _gpuFrameTimeToken = NoToken
    /\ currentGPUFrameTime = MaxTime

\* C14: a token that was outstanding when GPU capture was turned off is never
\* again passed to endTimeQuery, whether or not capture is turned on again.
C14_AbandonedTokenNeverResolved ==
    [][ abandoned # NoToken =>
           \A i \in DOMAIN calls' :
               calls'[i].op = "endTimeQuery" => calls'[i].arg # abandoned
      ]_vars

====
